---- MODULE Spec2Model ----
(***************************************************************************)
(* Model of scripts/translate_docs.py: main() copies the nine listed       *)
(* documentation files from docs/ to docs/en/, prepending a marker line    *)
(* and running the link-rewrite loop over the text.                        *)
(*                                                                         *)
(* File contents are sequences of tokens.  "." and "/" are tokens of their *)
(* own, so "./FAQ.md" is <<".", "/", "FAQ.md">> and "../FAQ.md" contains   *)
(* it as a substring, as in the text.  Paths are sequences of components   *)
(* relative to SRC_DIR: <<>> is docs/, <<"en">> is docs/en.                *)
(***************************************************************************)
EXTENDS Integers, Sequences, FiniteSets, TLC

\* ------------------------------------------------------------ bounds
MaxRuns == 2
MaxEnvSteps == 1

\* ------------------------------------------------------------ constants of the script
FILES ==
  << "OVERVIEW.md", "QUICK_START.md", "FRONTEND_INTEGRATION.md",
     "INTERMEDIATE_GUIDE.md", "EXPERT_GUIDE.md", "MIGRATION_V1_V2.md",
     "IMPLEMENTATION_NOTES.md", "FAQ.md", "CONTRIBUTING.md" >>

FileSet == { FILES[k] : k \in 1..Len(FILES) }

Marker == "<!-- TRANSLATED TO ENGLISH (replace with real translation) -->\n"

SRC_DIR == << >>

DST_DIR == SRC_DIR \o << "en" >>

SrcPath(fname) == SRC_DIR \o << fname >>

DstPathInSrc(fname) == SRC_DIR \o << fname >>

DstPath(fname) == DST_DIR \o << fname >>

\* ------------------------------------------------------------ the file system
OtherName == "README.md"

Names == FileSet \cup { OtherName }

Paths ==
  { SRC_DIR, DST_DIR } \cup { SRC_DIR \o << n >> : n \in Names }
    \cup { DST_DIR \o << n >> : n \in Names }

NoEnt == [ kind |-> "none", data |-> << >> ]

Dir == [ kind |-> "dir", data |-> << >> ]

File(c) == [ kind |-> "file", data |-> c ]

Parent(p) == SubSeq(p, 1, Len(p) - 1)

\* Path.exists()
Exists(fsys, p) == fsys[p].kind # "none"

\* Path.mkdir(exist_ok=False): an existing directory is an error too.
mkdirStrict(fsys, p) ==
  IF fsys[Parent(p)].kind # "dir" THEN [ fs |-> fsys, exc |-> "FileNotFoundError" ]
  ELSE IF fsys[p].kind = "none" THEN [ fs |-> [ fsys EXCEPT ![p] = Dir ], exc |-> "none" ]
  ELSE [ fs |-> fsys, exc |-> "FileExistsError" ]

\* Path.mkdir(exist_ok=True), parents=False: the result file system and the
\* exception raised ("none" when it returns).
mkdir(fsys, p) ==
  IF fsys[Parent(p)].kind # "dir" THEN [ fs |-> fsys, exc |-> "FileNotFoundError" ]
  ELSE IF fsys[p].kind = "none" THEN [ fs |-> [ fsys EXCEPT ![p] = Dir ], exc |-> "none" ]
  ELSE IF fsys[p].kind = "dir" THEN [ fs |-> fsys, exc |-> "none" ]
  ELSE [ fs |-> fsys, exc |-> "FileExistsError" ]

\* open(p, "a"): keeps what the file holds.
OpenAppend(node) == IF node.kind = "file" THEN node ELSE File(<< >>)

\* open(p, "w"): creates the file or truncates it.
OpenWrite(node) == File(<< >>)

\* ------------------------------------------------------------ text
\* str.replace(old, new) from position k on: left to right, non-overlapping
\* occurrences.
RECURSIVE ReplaceFrom(_, _, _, _)
ReplaceFrom(s, old, new, k) ==
  IF k > Len(s) THEN << >>
  ELSE IF k + Len(old) - 1 <= Len(s) /\ SubSeq(s, k, k + Len(old) - 1) = old
       THEN new \o ReplaceFrom(s, old, new, k + Len(old))
       ELSE << s[k] >> \o ReplaceFrom(s, old, new, k + 1)

\* str.replace(old, new)
Replace(s, old, new) == ReplaceFrom(s, old, new, 1)

fake_translate(c) == << Marker >> \o c

\* f"./{f2}", the text searched for
LinkText(f2) == << ".", "/", f2 >>

\* "./en/FOO.md", the target the comment of the loop names
LinkTargetEn(f2) == << ".", "/", "en", "/", f2 >>

\* f"./{f2}", the text put in its place
LinkTarget(f2) == << ".", "/", f2 >>

\* The one element of a singleton.
Only(S) == CHOOSE x \in S : TRUE

\* for f2 in FILES: if f2 != fname: translated = translated.replace(...)
\* from FILES[k] on.  x is the text after the pass for FILES[k], bound as a value
\* so that each pass is evaluated once.
RECURSIVE RewriteLinks(_, _, _)
RewriteLinks(t, fname, k) ==
  IF k > Len(FILES) THEN t
  ELSE Only({ RewriteLinks(x, fname, k + 1) :
                x \in { IF FILES[k] # fname
                          THEN Replace(t, LinkText(FILES[k]), LinkTarget(FILES[k]))
                          ELSE t } })

TranslatedNoticeShort(fname) == << "Translated ", fname >>

\* print(f"Translated {fname} -> en/{fname}")
TranslatedNotice(fname) == << "Translated ", fname, " -> en/", fname >>

MissingNoticeWrong(fname) == << "Translated ", fname, " -> en/", fname >>

\* print(f"Source file missing: {fname}")
MissingNotice(fname) == << "Source file missing: ", fname >>

\* ------------------------------------------------------------ state
VARIABLES
  fs,          \* the file system under docs/: path -> node
  pc,          \* position of main(): start, for, exists, open_src, read, translate,
               \* open_dst, write, print_ok, print_missing, done, raised
  i,           \* index of fname in FILES (the for loop)
  content,     \* local of main()
  translated,  \* local of main()
  handles,     \* the open file objects, as [path, mode], in opening order
  out,         \* standard output of the run, one notice per element
  exc,         \* the exception that ended the run, "none" otherwise
  reads,       \* per listed file, f.read() calls of this run
  writes,      \* per listed file, f.write() calls of this run
  before,      \* the file system when the current run began
  prev,        \* the file system when the run before it began
  runs,        \* completed runs
  envSteps     \* changes made to the sources between runs

vars ==
  << fs, pc, i, content, translated, handles, out, exc, reads, writes,
     before, prev, runs, envSteps >>

fname == FILES[i]

\* ------------------------------------------------------------ initial states
Contents ==
  { << >>,
    << "# FAQ\n" >>,
    << "see ", ".", "/", "FAQ.md", " and ", ".", "/", "OVERVIEW.md", "\n" >>,
    << Marker, ".", ".", "/", "QUICK_START.md", ".", "/", "en", "/", "FAQ.md" >> }

StaleContent == << Marker, "old\n" >>

Layouts == { "noroot", "absent", "enfile", "empty", "foreign", "stale" }

\* The tree under docs/ with the listed files of `present` holding c.
Tree(present, c, layout) ==
  [ p \in Paths |->
      IF layout = "noroot" THEN NoEnt
      ELSE IF p = SRC_DIR THEN Dir
      ELSE IF p = DST_DIR THEN
             IF layout = "absent" THEN NoEnt
             ELSE IF layout = "enfile" THEN File(<< "not a directory" >>)
             ELSE Dir
      ELSE IF Len(p) = 1 THEN
             IF p[1] = OtherName THEN File(<< "readme\n" >>)
             ELSE IF p[1] \in present THEN File(c) ELSE NoEnt
      ELSE IF p[2] = OtherName THEN
             IF layout \in { "foreign", "stale" } THEN File(<< "notes\n" >>) ELSE NoEnt
      ELSE IF layout = "stale" THEN File(StaleContent) ELSE NoEnt ]

InitLocals ==
  /\ pc = "start"
  /\ i = 1
  /\ content = << >>
  /\ translated = << >>
  /\ handles = << >>
  /\ out = << >>
  /\ exc = "none"
  /\ reads = [ f \in FileSet |-> 0 ]
  /\ writes = [ f \in FileSet |-> 0 ]
  /\ before = fs
  /\ prev = fs
  /\ runs = 0
  /\ envSteps = 0

Init ==
  /\ \E present \in SUBSET FileSet, c \in Contents, layout \in Layouts :
       /\ layout = "noroot" => (present = {} /\ c = << >>)
       /\ fs = Tree(present, c, layout)
  /\ InitLocals

\* All listed sources present; EnvRemove and EnvWrite make the other cases.
InitRerun ==
  /\ \E c \in { t \in Contents : Len(t) >= 2 }, layout \in { "absent", "foreign" } :
       fs = Tree(FileSet, c, layout)
  /\ InitLocals

\* The subsets of present sources are those of Init; one text, the trees in
\* which mkdir can return or raise.
InitLive ==
  /\ \E present \in SUBSET FileSet, layout \in { "noroot", "absent", "enfile", "stale" } :
       /\ layout = "noroot" => present = {}
       /\ fs = Tree(present, << "# FAQ\n", ".", "/", "FAQ.md" >>, layout)
  /\ InitLocals

\* ------------------------------------------------------------ main()
\* DST_DIR.mkdir(exist_ok=True)
Mkdir ==
  /\ pc = "start"
  /\ LET r == mkdir(fs, DST_DIR) IN
       /\ fs' = r.fs
       /\ exc' = r.exc
       /\ pc' = IF r.exc = "none" THEN "for" ELSE "raised"
  /\ before' = fs
  /\ prev' = before
  /\ UNCHANGED << i, content, translated, handles, out, reads, writes, runs, envSteps >>

\* for fname in FILES: the next filename, or the end of main()
ForNext ==
  /\ pc = "for"
  /\ IF i <= Len(FILES)
       THEN pc' = "exists" /\ runs' = runs
       ELSE pc' = "done" /\ runs' = runs + 1
  /\ UNCHANGED << fs, i, content, translated, handles, out, exc, reads, writes,
                  before, prev, envSteps >>

\* if src.exists():
IfExists ==
  /\ pc = "exists"
  /\ pc' = IF Exists(fs, SrcPath(fname)) THEN "open_src" ELSE "print_missing"
  /\ UNCHANGED << fs, i, content, translated, handles, out, exc, reads, writes,
                  before, prev, runs, envSteps >>

\* with open(src, encoding="utf-8") as f:
OpenSrc ==
  /\ pc = "open_src"
  /\ IF fs[SrcPath(fname)].kind = "file"
       THEN /\ handles' = Append(handles, [ path |-> SrcPath(fname), mode |-> "r" ])
            /\ pc' = "read"
            /\ exc' = exc
       ELSE /\ handles' = handles
            /\ pc' = "raised"
            /\ exc' = IF fs[SrcPath(fname)].kind = "dir"
                        THEN "IsADirectoryError" ELSE "FileNotFoundError"
  /\ UNCHANGED << fs, i, content, translated, out, reads, writes, before, prev,
                  runs, envSteps >>

\* content = f.read() without the with block: the file object stays open
ReadSrcNoClose ==
  /\ pc = "read"
  /\ content' = fs[SrcPath(fname)].data
  /\ reads' = [ reads EXCEPT ![fname] = @ + 1 ]
  /\ pc' = "translate"
  /\ UNCHANGED << fs, i, translated, handles, out, exc, writes, before, prev,
                  runs, envSteps >>

\* content = f.read(), and the with block closes f
ReadSrc ==
  /\ pc = "read"
  /\ content' = fs[SrcPath(fname)].data
  /\ reads' = [ reads EXCEPT ![fname] = @ + 1 ]
  /\ handles' = SubSeq(handles, 1, Len(handles) - 1)
  /\ pc' = "translate"
  /\ UNCHANGED << fs, i, translated, out, exc, writes, before, prev, runs, envSteps >>

\* translated = fake_translate(content), then the link loop over FILES
Translate ==
  /\ pc = "translate"
  /\ \E t \in { fake_translate(content) } :
       translated' = RewriteLinks(t, fname, 1)
  /\ pc' = "open_dst"
  /\ UNCHANGED << fs, i, content, handles, out, exc, reads, writes, before, prev,
                  runs, envSteps >>

\* with open(dst, "w", encoding="utf-8") as f:
OpenDst ==
  /\ pc = "open_dst"
  /\ IF fs[Parent(DstPath(fname))].kind = "dir" /\ fs[DstPath(fname)].kind # "dir"
       THEN /\ fs' = [ fs EXCEPT ![DstPath(fname)] = OpenWrite(@) ]
            /\ handles' = Append(handles, [ path |-> DstPath(fname), mode |-> "w" ])
            /\ pc' = "write"
            /\ exc' = exc
       ELSE /\ fs' = fs
            /\ handles' = handles
            /\ pc' = "raised"
            /\ exc' = IF fs[Parent(DstPath(fname))].kind = "dir"
                        THEN "IsADirectoryError" ELSE "FileNotFoundError"
  /\ UNCHANGED << i, content, translated, out, reads, writes, before, prev,
                  runs, envSteps >>

\* f.write(translated), and the with block closes f
WriteDst ==
  /\ pc = "write"
  /\ fs' = [ fs EXCEPT ![DstPath(fname)] = File(@.data \o translated) ]
  /\ writes' = [ writes EXCEPT ![fname] = @ + 1 ]
  /\ handles' = SubSeq(handles, 1, Len(handles) - 1)
  /\ pc' = "print_ok"
  /\ UNCHANGED << i, content, translated, out, exc, reads, before, prev, runs, envSteps >>

\* print(f"Translated {fname} -> en/{fname}"), end of the iteration
PrintTranslated ==
  /\ pc = "print_ok"
  /\ out' = Append(out, TranslatedNotice(fname))
  /\ i' = i + 1
  /\ pc' = "for"
  /\ UNCHANGED << fs, content, translated, handles, exc, reads, writes, before, prev,
                  runs, envSteps >>

\* the else branch leaving the loop after its notice
PrintMissingBreak ==
  /\ pc = "print_missing"
  /\ out' = Append(out, MissingNotice(fname))
  /\ pc' = "done"
  /\ runs' = runs + 1
  /\ UNCHANGED << fs, i, content, translated, handles, exc, reads, writes, before,
                  prev, envSteps >>

\* the else branch removing the destination of a missing source
PrintMissingUnlink ==
  /\ pc = "print_missing"
  /\ out' = Append(out, MissingNotice(fname))
  /\ fs' = [ fs EXCEPT ![DstPath(fname)] = NoEnt ]
  /\ i' = i + 1
  /\ pc' = "for"
  /\ UNCHANGED << content, translated, handles, exc, reads, writes, before, prev,
                  runs, envSteps >>

\* else: print(f"Source file missing: {fname}"), end of the iteration
PrintMissing ==
  /\ pc = "print_missing"
  /\ out' = Append(out, MissingNotice(fname))
  /\ i' = i + 1
  /\ pc' = "for"
  /\ UNCHANGED << fs, content, translated, handles, exc, reads, writes, before, prev,
                  runs, envSteps >>

\* ------------------------------------------------------------ between runs
\* python translate_docs.py again: a new process calls main()
Rerun ==
  /\ pc = "done"
  /\ runs < MaxRuns
  /\ pc' = "start"
  /\ i' = 1
  /\ content' = << >>
  /\ translated' = << >>
  /\ out' = << >>
  /\ reads' = [ f \in FileSet |-> 0 ]
  /\ writes' = [ f \in FileSet |-> 0 ]
  /\ UNCHANGED << fs, handles, exc, before, prev, runs, envSteps >>

\* Someone deletes a listed source file while the script is not running.
EnvRemove ==
  /\ pc = "start"
  /\ envSteps < MaxEnvSteps
  /\ \E f \in FileSet :
       /\ fs[SrcPath(f)].kind = "file"
       /\ fs' = [ fs EXCEPT ![SrcPath(f)] = NoEnt ]
  /\ envSteps' = envSteps + 1
  /\ UNCHANGED << pc, i, content, translated, handles, out, exc, reads, writes,
                  before, prev, runs >>

\* Someone writes a listed source file (new or edited) while the script is not
\* running.
EnvWrite ==
  /\ pc = "start"
  /\ envSteps < MaxEnvSteps
  /\ \E f \in FileSet :
       /\ fs[SrcPath(f)] # File(<< "edited\n" >>)
       /\ fs' = [ fs EXCEPT ![SrcPath(f)] = File(<< "edited\n" >>) ]
  /\ envSteps' = envSteps + 1
  /\ UNCHANGED << pc, i, content, translated, handles, out, exc, reads, writes,
                  before, prev, runs >>

\* ------------------------------------------------------------ specifications
Main ==
  \/ Mkdir
  \/ ForNext
  \/ IfExists
  \/ OpenSrc
  \/ ReadSrc
  \/ Translate
  \/ OpenDst
  \/ WriteDst
  \/ PrintTranslated
  \/ PrintMissing

Next == Main

\* One run of main() from any of the initial trees.
Spec == Init /\ [][Next]_vars

\* One run; the interpreter keeps executing main() until it returns or raises.
LiveSpec == InitLive /\ [][Next]_vars /\ WF_vars(Next)

NextRerun ==
  \/ Main
  \/ Rerun
  \/ EnvRemove
  \/ EnvWrite

\* Up to MaxRuns runs, the sources changed up to MaxEnvSteps times before and
\* between them.
SpecRerun == InitRerun /\ [][NextRerun]_vars

TypeOK ==
  /\ pc \in { "start", "for", "exists", "open_src", "read", "translate", "open_dst",
              "write", "print_ok", "print_missing", "done", "raised" }
  /\ i \in 1..(Len(FILES) + 1)
  /\ runs \in 0..MaxRuns
  /\ envSteps \in 0..MaxEnvSteps
  /\ DOMAIN fs = Paths

\* ------------------------------------------------------------ properties
\* The iterations of the current run that have ended (each printed its notice).
Completed == 1..Len(out)

HasLink(c) == \E k \in 1..(Len(c) - 2) : c[k] = "." /\ c[k + 1] = "/" /\ c[k + 2] \in FileSet

C2_MissingSkipped ==
  \A k \in Completed :
    ~Exists(before, SrcPath(FILES[k])) =>
      /\ out[k] = << "Source file missing: ", FILES[k] >>
      /\ ~Exists(before, DstPath(FILES[k])) => ~Exists(fs, DstPath(FILES[k]))

C2_Witness ==
  /\ pc = "done"
  /\ \E f, g \in FileSet :
       /\ ~Exists(before, SrcPath(f))
       /\ ~Exists(fs, DstPath(f))
       /\ fs[DstPath(g)].kind = "file"

SameSources(a, b) == \A f \in FileSet : a[SrcPath(f)] = b[SrcPath(f)]

\* C3: when a run ends whose sources are those of the run before it, every
\* destination path holds what it held when the run began, that is, after the
\* run before it.
C3_RerunStable ==
  (pc = "done" /\ runs >= 2 /\ SameSources(prev, before)) =>
    \A f \in FileSet : fs[DstPath(f)] = before[DstPath(f)]

C3_Witness ==
  /\ pc = "done"
  /\ runs >= 2
  /\ SameSources(prev, before)
  /\ \E f, g \in FileSet :
       /\ fs[DstPath(f)].kind = "file"
       /\ Len(fs[DstPath(f)].data) >= 2
       /\ ~Exists(fs, DstPath(g))

\* C4: mkdir raises neither when en/ is absent nor when it is a directory
\* (docs/ being there), and from then on, through every write and after main()
\* returns, en/ is a directory.
C4_DstDirExists ==
  /\ pc \notin { "start", "raised" } => fs[DST_DIR].kind = "dir"
  /\ (before[SRC_DIR].kind = "dir" /\ before[DST_DIR].kind \in { "none", "dir" }) =>
       pc # "raised"

C4_Witness ==
  /\ pc = "done"
  /\ before[DST_DIR].kind = "none"
  /\ fs[DST_DIR].kind = "dir"
  /\ \E f \in FileSet : fs[DstPath(f)].kind = "file"

\* C5: a missing source ends neither the run nor the loop: when main() has
\* returned, every listed file that is present and comes after a missing one has
\* its destination, marker first, and no run raises after the loop began.
C5_MissingDoesNotStop ==
  /\ pc = "raised" => (i = 1 /\ out = << >>)
  /\ pc = "done" =>
       \A j \in 1..Len(FILES), k \in 1..Len(FILES) :
         (j < k /\ ~Exists(before, SrcPath(FILES[j])) /\ Exists(before, SrcPath(FILES[k]))) =>
           /\ fs[DstPath(FILES[k])].kind = "file"
           /\ Len(fs[DstPath(FILES[k])].data) >= 1
           /\ fs[DstPath(FILES[k])].data[1] = Marker
           /\ Tail(fs[DstPath(FILES[k])].data) = before[SrcPath(FILES[k])].data

C5_Witness ==
  /\ pc = "done"
  /\ ~Exists(before, SrcPath(FILES[1]))
  /\ ~Exists(before, SrcPath(FILES[8]))
  /\ Exists(before, SrcPath(FILES[9]))
  /\ fs[DstPath(FILES[9])].kind = "file"

ExpectedNotice(k) ==
  IF Exists(before, SrcPath(FILES[k]))
    THEN << "Translated ", FILES[k], " -> en/", FILES[k] >>
    ELSE << "Source file missing: ", FILES[k] >>

\* C6: every run ends, returning or raising at mkdir; a run that returns has made
\* nine iterations, and its output is one notice per filename of FILES, in list
\* order: the translated notice when the source existed, the missing notice
\* otherwise.  During the run the notices printed so far are those of the first
\* filenames of the list.
C6_NineNoticesInOrder ==
  /\ [](/\ Len(FILES) = 9
        /\ \A k \in Completed : out[k] = ExpectedNotice(k)
        /\ pc \notin { "start", "done", "raised" } => Len(out) = i - 1
        /\ pc = "done" => (i = 10 /\ Len(out) = 9))
  /\ <>(pc = "done" \/ pc = "raised")

C6_Witness ==
  /\ pc = "done"
  /\ Len(out) = 9
  /\ \E j, k \in 1..9 :
       /\ j < k
       /\ out[j] = << "Source file missing: ", FILES[j] >>
       /\ out[k] = << "Translated ", FILES[k], " -> en/", FILES[k] >>

\* C7: in one run each source is read at most once and each destination written
\* at most once, a destination only after its source was read and closed; at
\* most one file object is open at a time, and when the source of a filename is
\* open every earlier filename that was read has been written.
C7_ReadOnceWriteOnce ==
  /\ \A f \in FileSet : reads[f] <= 1 /\ writes[f] <= 1 /\ writes[f] <= reads[f]
  /\ Len(handles) <= 1
  /\ \A h \in 1..Len(handles) :
       /\ handles[h].path \in { SrcPath(fname), DstPath(fname) }
       /\ handles[h].path = DstPath(fname) => (reads[fname] = 1 /\ writes[fname] = 0)
       /\ handles[h].path = SrcPath(fname) =>
            \A j \in 1..(i - 1) : writes[FILES[j]] = reads[FILES[j]]

C7_Witness ==
  /\ pc = "write"
  /\ i >= 2
  /\ writes[FILES[1]] = 1
  /\ handles = << [ path |-> DstPath(fname), mode |-> "w" ] >>

\* The rewrite the comment of the loop describes: ./FOO.md -> ./en/FOO.md for
\* every other filename of FILES.
RECURSIVE AdjustLinks(_, _, _)
AdjustLinks(t, f, k) ==
  IF k > Len(FILES) THEN t
  ELSE Only({ AdjustLinks(x, f, k + 1) :
                x \in { IF FILES[k] # f
                          THEN Replace(t, LinkText(FILES[k]), LinkTargetEn(FILES[k]))
                          ELSE t } })

\* C8: after main() returns, the destination copy of a listed file is the marker
\* line followed by the source text with every ./FOO.md link to another listed
\* file adjusted to ./en/FOO.md.
C8_LinksAdjusted ==
  pc = "done" =>
    \A f \in FileSet :
      Exists(before, SrcPath(f)) =>
        fs[DstPath(f)].data = AdjustLinks(<< Marker >> \o before[SrcPath(f)].data, f, 1)

Writable == { DST_DIR } \cup { DST_DIR \o << f >> : f \in FileSet }

\* C9: no step of main(), in any run, changes a path other than en/ and the
\* en/<filename> of FILES: the sources, docs/ itself, the other files of docs/
\* and the other files of en/ stay as they are.  (Every step of the script moves
\* pc; the changes made to the sources between runs do not.)
C9_Frame ==
  [][pc' # pc => \A p \in Paths \ Writable : fs'[p] = fs[p]]_vars

C9_Witness ==
  /\ pc = "done"
  /\ runs >= 2
  /\ fs[DST_DIR \o << OtherName >>] = File(<< "notes\n" >>)
  /\ fs[SRC_DIR \o << OtherName >>] = File(<< "readme\n" >>)
  /\ \E f \in FileSet :
       /\ fs[SrcPath(f)].kind = "file"
       /\ fs[DstPath(f)] = File(<< Marker >> \o fs[SrcPath(f)].data)

\* C10: during and after a run, the destination of a listed file whose source was
\* missing when the run began is what it was when the run began: a destination
\* written by an earlier run stays, with its content.
C10_StaleDestinationKept ==
  pc # "start" =>
    \A f \in FileSet :
      ~Exists(before, SrcPath(f)) => fs[DstPath(f)] = before[DstPath(f)]

C10_Witness ==
  /\ pc = "done"
  /\ runs >= 2
  /\ \E f \in FileSet :
       /\ ~Exists(before, SrcPath(f))
       /\ ~Exists(fs, SrcPath(f))
       /\ fs[DstPath(f)].kind = "file"
       /\ Len(fs[DstPath(f)].data) >= 1
       /\ fs[DstPath(f)].data[1] = Marker

====
